---- MODULE Spec2Model ----
(***************************************************************************)
(* Lunch reminder bot (src/main.py): the reminder job, the Slack           *)
(* interactive callback, the order ledger, the subscriber records, the     *)
(* user settings and the menu cache, as one state machine.                 *)
(*                                                                         *)
(* Conventions.  A Python string is a sequence of atoms: single characters *)
(* where the code inspects the text (rendered dates, headings, prices),    *)
(* whole opaque tokens elsewhere (Slack ids, dish names, e-mail            *)
(* addresses).  Python's None is the empty sequence.  A datetime.date is   *)
(* the ordinal of the day within the year 2024 (1 = Monday 1 January).     *)
(* Every request handler is one atomic action.                             *)
(***************************************************************************)
EXTENDS Integers, Sequences, FiniteSets, TLC

VARIABLES
    today,          \* date.today() as seen by the next request
    users,          \* collection 'users':         Slack id -> document
    user_settings,  \* collection 'user_settings': e-mail   -> document
    orders,         \* collection 'orders':        doc id   -> document
    daily_menus,    \* collection 'daily_menus':   "%Y-%m-%d" -> document
    last,           \* what the request handled last did (response, sends, fetch)
    handled         \* number of requests handled so far

vars == <<today, users, user_settings, orders, daily_menus, last, handled>>

-----------------------------------------------------------------------------
(* Bounds of the model *)

\* number of calendar days the clock may advance past FirstDay
MaxDays == 3
\* largest number of documents in the 'orders' collection
MaxOrders == 2
\* number of requests the server handles in one behaviour
MaxRequests == 3
\* number of writes to the menu cache when the cache is exercised alone
MaxPuts == 3
\* largest number of rows of a menu table when the fetcher is exercised alone
MaxRows == 3
\* largest number of orders in the ledger when the monthly spend is exercised alone
MaxLedger == 2
\* largest number of orders in the ledger when the dish remark is exercised alone
MaxHistory == 3
\* number of days after a reminder on which its buttons may still be pressed
MaxLater == 2

-----------------------------------------------------------------------------
(* Values *)

None == << >>

Year == 2024
TARGET_PRICE == 125
ORDER_PRICE == 125
\* the price taken for an order document that has no 'price'
DEFAULT_PRICE == 125
\* the daily allowance of the monthly budget
DAILY_BUDGET == 125
PRAGUE_OFFSET == 2

UserIds == {"U1", "U2"}
\* a stream that yields the first document a second time
UserOrderRepeated == <<"U1", "U2", "U1">>
\* documents of a collection stream in document-id order
UserOrder == <<"U1", "U2">>
\* the one account that signs in to the settings page, and its Slack user
Emails == {<<"u1@rohlik.cz">>}
SlackIdOfEmail(email) == "U1"
DishNames == {<<"Svickova">>, <<"Rizek">>}
\* values the settings form may post as notification_frequency
FormFrequencies == {"daily", "2", "4", "every_2h"}
UtcHours == 0 .. 23
\* the values of the four rating buttons
RatingValues == {25, 50, 75, 100}

-----------------------------------------------------------------------------
(* datetime.date within 2024 *)

DaysInMonth == <<31, 29, 31, 30, 31, 30, 31, 31, 30, 31, 30, 31>>

\* days of the year before the first of each month
DaysBeforeMonth == <<0, 31, 60, 91, 121, 152, 182, 213, 244, 274, 305, 335>>
DaysBefore(m) == DaysBeforeMonth[m]

MakeDate(m, d) == DaysBefore(m) + d
MonthOf(date) == CHOOSE m \in 1 .. 12 : DaysBefore(m) < date /\ date <= DaysBefore(m) + DaysInMonth[m]
DayOf(date) == date - DaysBefore(MonthOf(date))

\* date.weekday(): Monday = 0 ... Sunday = 6
weekday(date) == (date - 1) % 7

FirstDay == MakeDate(7, 4)
LastDay == FirstDay + MaxDays

\* holidays.CZ() restricted to 2024
cz_holidays ==
    { MakeDate(1, 1), MakeDate(3, 29), MakeDate(4, 1), MakeDate(5, 1), MakeDate(5, 8),
      MakeDate(7, 5), MakeDate(7, 6), MakeDate(9, 28), MakeDate(10, 28), MakeDate(11, 17),
      MakeDate(12, 24), MakeDate(12, 25), MakeDate(12, 26) }

-----------------------------------------------------------------------------
(* Rendering and parsing of dates and numbers *)

DigitChars == <<"0", "1", "2", "3", "4", "5", "6", "7", "8", "9">>
IsDigit(c) == \E i \in 1 .. 10 : DigitChars[i] = c
DigitValue(c) == (CHOOSE i \in 1 .. 10 : DigitChars[i] = c) - 1

RECURSIVE Decimal(_)
Decimal(n) == IF n < 10 THEN <<DigitChars[n + 1]>> ELSE Decimal(n \div 10) \o <<DigitChars[(n % 10) + 1]>>

Pad2(n) == IF n < 10 THEN <<"0">> \o Decimal(n) ELSE Decimal(n)

RECURSIVE ToInt(_)
ToInt(digits) ==
    IF digits = << >> THEN 0
    ELSE 10 * ToInt(SubSeq(digits, 1, Len(digits) - 1)) + DigitValue(digits[Len(digits)])

\* date.strftime("%Y-%m-%d")
strftime_ymd(date) == Decimal(Year) \o <<"-">> \o Pad2(MonthOf(date)) \o <<"-">> \o Pad2(DayOf(date))

\* date.strftime("%-d.%-m.%Y")
strftime_dmy(date) == Decimal(DayOf(date)) \o <<".">> \o Decimal(MonthOf(date)) \o <<".">> \o Decimal(Year)

\* strptime raising ValueError (no date has ordinal 0)
ValueError == 0

\* datetime.strptime(s, "%Y-%m-%d").date() on the zero-padded form; ValueError otherwise
strptime_ymd(s) ==
    IF /\ Len(s) = 10
       /\ s[5] = "-" /\ s[8] = "-"
       /\ \A i \in {1, 2, 3, 4, 6, 7, 9, 10} : IsDigit(s[i])
    THEN LET y == ToInt(SubSeq(s, 1, 4))
             m == ToInt(SubSeq(s, 6, 7))
             d == ToInt(SubSeq(s, 9, 10))
         IN  IF y = Year /\ m \in 1 .. 12 /\ d >= 1 /\ d <= DaysInMonth[m]
             THEN MakeDate(m, d)
             ELSE ValueError
    ELSE ValueError

\* f"{year}-{month:02d}-{day:02d}"
format_ymd(year, month, day) == Decimal(year) \o <<"-">> \o Pad2(month) \o <<"-">> \o Pad2(day)

\* the code point of a character of a rendered date
CharCode(c) == IF c = "-" THEN 45 ELSE 48 + DigitValue(c)

\* a <= b for strings, as the store compares them: by the first character that differs
StrLe(a, b) ==
    LET n == IF Len(a) < Len(b) THEN Len(a) ELSE Len(b)
        differ == { i \in 1 .. n : a[i] # b[i] }
    IN  IF differ = {} THEN Len(a) <= Len(b)
        ELSE LET i == CHOOSE j \in differ : \A k \in differ : j <= k
             IN  CharCode(a[i]) < CharCode(b[i])

\* str.lower() on the letters the model's dish names are written with
UpperCase == <<"G", "R", "S">>
LowerCase == <<"g", "r", "s">>
lower_char(c) ==
    IF \E i \in 1 .. Len(UpperCase) : UpperCase[i] = c
    THEN LowerCase[CHOOSE i \in 1 .. Len(UpperCase) : UpperCase[i] = c]
    ELSE c
str_lower(text) == [i \in 1 .. Len(text) |-> lower_char(text[i])]

\* str.strip(): the blanks at both ends removed
str_strip(text) ==
    LET inked == { i \in 1 .. Len(text) : text[i] # " " }
    IN  IF inked = {} THEN << >>
        ELSE SubSeq(text, CHOOSE i \in inked : \A j \in inked : i <= j,
                          CHOOSE i \in inked : \A j \in inked : j <= i)

\* calendar.monthrange(year, month)[1]
monthrange_days(year, month) ==
    IF month = 2 THEN (IF year % 4 = 0 /\ (year % 100 # 0 \/ year % 400 = 0) THEN 29 ELSE 28)
    ELSE DaysInMonth[month]

\* the dates the model renders: the days of the run and their next order dates
ModelDates == FirstDay .. (LastDay + 3)

\* the function f held as an explicit table, so that it is computed once
Tabulate(f) == f @@ << >>

\* strftime_ymd and strptime_ymd tabulated over the dates of the model
Ymd == Tabulate([date \in ModelDates |-> strftime_ymd(date)])
Parsed == Tabulate([s \in { Ymd[date] : date \in ModelDates } |-> strptime_ymd(s)])
parse_ymd(s) == IF s \in DOMAIN Parsed THEN Parsed[s] ELSE strptime_ymd(s)

-----------------------------------------------------------------------------
(* The document store: a collection is a function from document ids to     *)
(* documents, a document a function from the field names it has to values. *)

\* dict.get(field) and dict.get(field, default)
dict_get(doc, field) == IF field \in DOMAIN doc THEN doc[field] ELSE None
dict_get_default(doc, field, default) == IF field \in DOMAIN doc THEN doc[field] ELSE default

\* DocumentReference.set(data): the document becomes exactly data
doc_set(coll, id, data) == [k \in DOMAIN coll \cup {id} |-> IF k = id THEN data ELSE coll[k]]

\* DocumentReference.set(data, merge=True): data's fields overwrite, the others stay
doc_set_merge(coll, id, data) ==
    LET old == IF id \in DOMAIN coll THEN coll[id] ELSE [f \in {} |-> None]
        new == [f \in DOMAIN old \cup DOMAIN data |-> IF f \in DOMAIN data THEN data[f] ELSE old[f]]
    IN  doc_set(coll, id, new)

\* DocumentReference.delete()
doc_delete(coll, id) == [k \in DOMAIN coll \ {id} |-> coll[k]]

EmptyCollection == [k \in {} |-> None]

DefaultSettings == [notification_frequency |-> "daily", is_test_user |-> FALSE]

get_user_settings(user_email) ==
    IF user_email = None THEN DefaultSettings
    ELSE IF user_email \notin DOMAIN user_settings THEN DefaultSettings
    ELSE LET doc == user_settings[user_email]
         IN  [notification_frequency |-> dict_get_default(doc, "notification_frequency", "daily"),
              is_test_user |-> dict_get_default(doc, "is_test_user", FALSE)]

save_user_settings(user_email, settings_data) ==
    IF user_email = None THEN user_settings
    ELSE doc_set_merge(user_settings, user_email, settings_data)

get_all_users_with_settings ==
    [u \in DOMAIN users |->
        [user_data |-> users[u], settings |-> get_user_settings(dict_get(users[u], "google_email"))]]

\* f"{ordered_by_id}_{ordered_for_id}_{order_for_date.strftime('%Y-%m-%d')}"
order_doc_id(ordered_by_id, ordered_for_id, order_for_date) ==
    <<ordered_by_id, "_", ordered_for_id, "_">> \o Ymd[order_for_date]

order_data(ordered_by_id, meal_choice, order_for_date, ordered_for_id) ==
    [ordered_by_user_id |-> ordered_by_id,
     meal_description |-> meal_choice,
     ordered_for_user_id |-> ordered_for_id,
     order_for_date |-> Ymd[order_for_date],
     placed_on_date |-> Ymd[today],
     price |-> ORDER_PRICE,
     rating |-> None,
     rated_at |-> None]

\* save_user_order with a document id that also names the dish, so that a second
\* dish for the same triple lands in a second document
save_user_order_per_dish(ordered_by_id, meal_choice, order_for_date, ordered_for_id) ==
    doc_set(orders, order_doc_id(ordered_by_id, ordered_for_id, order_for_date) \o meal_choice,
            order_data(ordered_by_id, meal_choice, order_for_date, ordered_for_id))

\* save_user_order keeping the rating of an order it overwrites
save_user_order_keep_rating(ordered_by_id, meal_choice, order_for_date, ordered_for_id) ==
    LET doc_id == order_doc_id(ordered_by_id, ordered_for_id, order_for_date)
        data == order_data(ordered_by_id, meal_choice, order_for_date, ordered_for_id)
    IN  doc_set(orders, doc_id,
                IF doc_id \in DOMAIN orders
                THEN [data EXCEPT !.rating = orders[doc_id].rating, !.rated_at = orders[doc_id].rated_at]
                ELSE data)

\* the 'orders' collection after save_user_order
save_user_order_orders(ordered_by_id, meal_choice, order_for_date, ordered_for_id) ==
    doc_set(orders, order_doc_id(ordered_by_id, ordered_for_id, order_for_date),
            order_data(ordered_by_id, meal_choice, order_for_date, ordered_for_id))

\* save_user_order clearing the snooze of every subscriber
save_user_order_clear_all(ordered_by_id) ==
    [u \in DOMAIN users \cup {ordered_by_id} |->
        [snoozed_until |-> None] @@ (IF u \in DOMAIN users THEN users[u] ELSE << >>)]

\* the 'users' collection after save_user_order
save_user_order_users(ordered_by_id) ==
    doc_set_merge(users, ordered_by_id, [snoozed_until |-> None])

\* the lookup by composite key: it sees only an order the user placed for themself
check_if_user_ordered_for_self(user_id, target_date) ==
    order_doc_id(user_id, user_id, target_date) \in DOMAIN orders

check_if_user_ordered_for_date(user_id, target_date) ==
    LET query == { k \in DOMAIN orders :
                     /\ orders[k].order_for_date = Ymd[target_date]
                     /\ orders[k].ordered_by_user_id = user_id }
    IN  Cardinality(query) > 0

\* the position of a Slack id among the Slack ids, as strings compare
UserRank(u) == CHOOSE i \in 1 .. Len(UserOrder) : UserOrder[i] = u

\* a < b for the ids of two order documents, "<by>_<for>_<date>"
DocIdLess(a, b) ==
    \/ UserRank(a[1]) < UserRank(b[1])
    \/ /\ a[1] = b[1]
       /\ \/ UserRank(a[3]) < UserRank(b[3])
          \/ /\ a[3] = b[3]
             /\ SubSeq(a, 5, Len(a)) # SubSeq(b, 5, Len(b))
             /\ StrLe(SubSeq(a, 5, Len(a)), SubSeq(b, 5, Len(b)))

\* query.stream() without order_by: the documents ids in document-id order
StreamOrder(ids) ==
    CHOOSE seq \in [1 .. Cardinality(ids) -> ids] :
        \A i, j \in 1 .. Cardinality(ids) : i < j => DocIdLess(seq[i], seq[j])

rating_fields(rating_value) == [rating |-> <<rating_value>>, rated_at |-> <<"SERVER_TIMESTAMP">>]

\* a save_rating that writes with set(..., merge=True) to the user's own order
\* document, whether it exists or not
save_rating_upsert(user_id, order_date, rating_value) ==
    [saved |-> TRUE,
     orders |-> doc_set_merge(orders, order_doc_id(user_id, user_id, order_date),
                              rating_fields(rating_value))]

\* a save_rating that updates every order it finds
save_rating_all(user_id, order_date, rating_value) ==
    LET found == { k \in DOMAIN orders :
                     /\ orders[k].ordered_for_user_id = user_id
                     /\ orders[k].order_for_date = Ymd[order_date] }
    IN  [saved |-> found # {},
         orders |-> [k \in DOMAIN orders |->
                        IF k \in found THEN rating_fields(rating_value) @@ orders[k] ELSE orders[k]]]

\* save_rating: its return value and the 'orders' collection it leaves; the first
\* order of the query result is updated
save_rating(user_id, order_date, rating_value) ==
    LET found == { k \in DOMAIN orders :
                     /\ orders[k].ordered_for_user_id = user_id
                     /\ orders[k].order_for_date = Ymd[order_date] }
    IN  IF found = {} THEN [saved |-> FALSE, orders |-> orders]
        ELSE LET order_doc == StreamOrder(found)[1]
             IN  [saved |-> TRUE,
                  orders |-> doc_set_merge(orders, order_doc, rating_fields(rating_value))]

\* the orders for the date that have no rating (None, empty or missing), in
\* stream order
get_orders_needing_ratings(target_date) ==
    LET for_date == { k \in DOMAIN orders : orders[k].order_for_date = Ymd[target_date] }
        Unrated(k) == dict_get(orders[k], "rating") = None
    IN  SelectSeq(StreamOrder(for_date), Unrated)

\* the user's orders of the dish, in stream order
get_user_dish_history(user_id, dish_name) ==
    LET normalized_dish == str_lower(str_strip(dish_name))
        orders_ref == StreamOrder({ k \in DOMAIN orders : orders[k].ordered_for_user_id = user_id })
        Matches(k) ==
            str_lower(str_strip(dict_get_default(orders[k], "meal_description", << >>))) = normalized_dish
        matching == SelectSeq(orders_ref, Matches)
    IN  [i \in 1 .. Len(matching) |->
            [date |-> dict_get(orders[matching[i]], "order_for_date"),
             rating |-> dict_get(orders[matching[i]], "rating"),
             meal_description |-> dict_get(orders[matching[i]], "meal_description")]]

\* a remark of one of the categories of RATING_REACTIONS, with the number its text shows
Remark(category, value) == [category |-> category, value |-> value]
NoRemark == Remark("none", 0)

generate_dish_comment(dish_history) ==
    IF dish_history = << >> THEN NoRemark
    ELSE
    LET order_count == Len(dish_history)
        IsRated(o) == o.rating # None
        rated_orders == SelectSeq(dish_history, IsRated)
    IN  IF order_count >= 3 THEN Remark("multiple", order_count)
        ELSE IF rated_orders # << >>
        THEN LET last_rating == rated_orders[Len(rated_orders)].rating[1]
             IN  IF last_rating >= 80 THEN Remark("high", last_rating)
                 ELSE IF last_rating >= 50 THEN Remark("medium", last_rating)
                 ELSE Remark("low", last_rating)
        ELSE IF order_count >= 2 THEN Remark("multiple", order_count)
        ELSE NoRemark

RECURSIVE SumPrices(_, _)
\* sum(order.to_dict().get('price', 125) for order in orders) over the documents ids
SumPrices(coll, ids) ==
    IF ids = {} THEN 0
    ELSE LET k == CHOOSE id \in ids : TRUE
         IN  dict_get_default(coll[k], "price", DEFAULT_PRICE) + SumPrices(coll, ids \ {k})

\* the monthly spend counting only what the user ordered for themself
get_user_monthly_spending_own(user_id, year, month) ==
    LET start == Decimal(year) \o <<"-">> \o Pad2(month) \o <<"-", "0", "1">>
        end == Decimal(year) \o <<"-">> \o Pad2(month) \o <<"-">> \o Decimal(monthrange_days(year, month))
        orders_ref == { k \in DOMAIN orders :
                          /\ orders[k].ordered_by_user_id = user_id
                          /\ orders[k].ordered_for_user_id = user_id
                          /\ StrLe(start, orders[k].order_for_date)
                          /\ StrLe(orders[k].order_for_date, end) }
    IN  [total_spent |-> SumPrices(orders, orders_ref), count |-> Cardinality(orders_ref)]

get_user_monthly_spending(user_id, year, month) ==
    LET start == Decimal(year) \o <<"-">> \o Pad2(month) \o <<"-", "0", "1">>
        end == Decimal(year) \o <<"-">> \o Pad2(month) \o <<"-">> \o Decimal(monthrange_days(year, month))
        orders_ref == { k \in DOMAIN orders :
                          /\ orders[k].ordered_by_user_id = user_id
                          /\ StrLe(start, orders[k].order_for_date)
                          /\ StrLe(orders[k].order_for_date, end) }
    IN  [total_spent |-> SumPrices(orders, orders_ref), count |-> Cardinality(orders_ref)]

\* the working days (Monday to Friday) of a month of 2024
calculate_workdays(year, month) ==
    Cardinality({ day \in 1 .. monthrange_days(year, month) : weekday(MakeDate(month, day)) < 5 })

\* is_user_snoozed with a strict comparison: the snooze ends one day early
is_user_snoozed_strict(user_data, check_date) ==
    LET snoozed_until_str == dict_get(user_data, "snoozed_until")
    IN  IF snoozed_until_str = None THEN FALSE
        ELSE LET parsed == parse_ymd(snoozed_until_str)
             IN  IF parsed = ValueError THEN FALSE ELSE parsed > check_date

is_user_snoozed(user_data, check_date) ==
    LET snoozed_until_str == dict_get(user_data, "snoozed_until")
    IN  IF snoozed_until_str = None THEN FALSE
        ELSE LET parsed == parse_ymd(snoozed_until_str)
             IN  IF parsed = ValueError THEN FALSE ELSE parsed >= check_date

\* a save that files the menu under the day of the save
save_daily_menu_under_today(menu_date, menu_items) ==
    doc_set_merge(daily_menus, Ymd[today], [menu_items |-> menu_items])

\* a cache that keeps the entry a date already has
save_daily_menu_keep_first(menu_date, menu_items) ==
    IF Ymd[menu_date] \in DOMAIN daily_menus THEN daily_menus
    ELSE doc_set(daily_menus, Ymd[menu_date], [menu_items |-> menu_items])

\* a cache that keeps the latest date only
save_daily_menu_latest_only(menu_date, menu_items) ==
    doc_set(EmptyCollection, Ymd[menu_date], [menu_items |-> menu_items])

save_daily_menu(menu_date, menu_items) ==
    doc_set_merge(daily_menus, Ymd[menu_date], [menu_items |-> menu_items])

\* None when there is no document, else its menu_items ([] when the field is absent)
get_saved_menu_for_date(target_date) ==
    IF Ymd[target_date] \in DOMAIN daily_menus
    THEN dict_get(daily_menus[Ymd[target_date]], "menu_items")
    ELSE None

-----------------------------------------------------------------------------
(* The vendor page and the menu fetcher *)

H2(text) == [tag |-> "h2", text |-> text, class |-> None, rows |-> << >>]
Table(class, rows) == [tag |-> "table", text |-> None, class |-> class, rows |-> rows]
Row(name, price) == << <<"1">>, <<"150g">>, name, price >>

HeadingText(date) == <<"M", "e", "n", "u", " ">> \o strftime_dmy(date)
Price120 == <<"1", "2", "0", " ", "K", "c">>
Price125 == <<"1", "2", "5", " ", "K", "c">>
RowsA == << Row(<<"Gulas">>, Price120), Row(<<"Svickova">>, Price125) >>
RowsB == << Row(<<"Svickova">>, Price125), Row(<<"Rizek">>, Price125) >>
RowsCheap == << Row(<<"Gulas">>, Price120) >>

\* The vendor lists the menus of the coming days under one heading per date.
PageDown == [ok |-> FALSE, body |-> << >>]
PageBlank == [ok |-> TRUE, body |-> << H2(<<"M", "e", "n", "u">>) >>]
PageWith(d1, d2, rows) ==
    [ok |-> TRUE, body |-> << H2(HeadingText(d1)), Table(<<"table-menu">>, rows),
                              H2(HeadingText(d2)), Table(<<"table-menu">>, rows) >>]
PageNoTable(d1, d2) ==
    [ok |-> TRUE, body |-> << H2(HeadingText(d1)), Table(<<"table-other">>, RowsA),
                              H2(HeadingText(d2)) >>]

\* what the vendor may serve on a given day: an outage, a page without the coming
\* days, or a page with the sections of the next day and of the day three days on
VendorPages(day) ==
    {PageDown, PageBlank, PageNoTable(day + 1, day + 3)}
        \cup { PageWith(day + 1, day + 3, rows) : rows \in {RowsA, RowsB, RowsCheap} }

\* needle in hay
IsSubstring(needle, hay) ==
    \E i \in 0 .. (Len(hay) - Len(needle)) : SubSeq(hay, i + 1, i + Len(needle)) = needle

Min(S) == CHOOSE x \in S : \A y \in S : x <= y

\* re.search(r'\d+', text): the first run of digits, << >> when there is none
FirstDigitRun(text) ==
    LET digits == { i \in 1 .. Len(text) : IsDigit(text[i]) }
    IN  IF digits = {} THEN << >>
        ELSE LET s == Min(digits)
                 e == Min({ j \in s .. Len(text) : j = Len(text) \/ ~IsDigit(text[j + 1]) })
             IN  SubSeq(text, s, e)

\* how a call ends: with a string, with a list, or with an exception
ReturnStr(text) == [isstr |-> TRUE, text |-> text, items |-> << >>, raised |-> FALSE]
ReturnList(items) == [isstr |-> FALSE, text |-> None, items |-> items, raised |-> FALSE]
Raise == [isstr |-> FALSE, text |-> None, items |-> << >>, raised |-> TRUE]

\* os.environ.get("ENABLE_IMAGES", "false"): the default, no image search
ENABLE_IMAGES == FALSE

\* a row filter that looks for the digits of the target price anywhere in the text
RowPriceContainsTarget(cols) ==
    /\ Len(cols) = 4
    /\ IsSubstring(Decimal(TARGET_PRICE), cols[4])

\* the row filter of the dish_names comprehension
RowAtTargetPrice(cols) ==
    /\ Len(cols) = 4
    /\ FirstDigitRun(cols[4]) # << >>
    /\ ToInt(FirstDigitRun(cols[4])) = TARGET_PRICE

\* the try block of get_daily_menu; requests.get or raise_for_status raises when
\* the vendor cannot be reached or answers with an error status
get_daily_menu_try(page, target_date) ==
    IF ~page.ok THEN Raise
    ELSE
    LET body == page.body
        target_date_string == strftime_dmy(target_date)
        headers == { i \in 1 .. Len(body) :
                       /\ body[i].tag = "h2"
                       /\ body[i].text # None
                       /\ IsSubstring(target_date_string, body[i].text) }
    IN  IF headers = {} THEN ReturnStr(<<"menu_not_available_yet">>)
        ELSE
        LET menu_header == Min(headers)
            tables == { j \in (menu_header + 1) .. Len(body) :
                          body[j].tag = "table" /\ body[j].class = <<"table-menu">> }
        IN  IF tables = {} THEN ReturnStr(<<"table_not_found">>)
            ELSE
            LET kept == SelectSeq(body[Min(tables)].rows, RowAtTargetPrice)
                dish_names == [i \in 1 .. Len(kept) |-> kept[i][3]]
            IN  IF dish_names = << >> THEN ReturnStr(<<"no_dish_at_target_price">>)
                ELSE ReturnList([i \in 1 .. Len(dish_names) |->
                                    [name |-> dish_names[i],
                                     image_url |-> IF ENABLE_IMAGES THEN <<"image">> ELSE None]])

\* get_daily_menu without its except clause
get_daily_menu_uncaught(page, target_date) == get_daily_menu_try(page, target_date)

\* try: ... except Exception: return the error text
get_daily_menu(page, target_date) ==
    LET result == get_daily_menu_try(page, target_date)
    IN  IF result.raised THEN ReturnStr(<<"critical_error">>) ELSE result

\* get_daily_menu tabulated over the pages and the dates of the model
PagesOn == Tabulate([day \in FirstDay .. LastDay |-> VendorPages(day)])
AllPages == UNION { PagesOn[day] : day \in FirstDay .. LastDay }
Fetched ==
    Tabulate([target_date \in ModelDates |->
                Tabulate([page \in AllPages |-> get_daily_menu(page, target_date)])])

-----------------------------------------------------------------------------
(* The reminder job *)

\* Monday to Friday taken as the reminder days
working_days == {0, 1, 2, 3, 4}

\* the weekdays (Monday = 0) on which the job does anything
reminder_days == {0, 1, 2, 3, 6}

\* the job without its holiday test
no_holiday_check(date) == FALSE

\* next_day in cz_holidays
in_cz_holidays(date) == date \in cz_holidays

\* the next order date of the reminder job
next_day(day) == IF weekday(day) = 4 THEN day + 3 ELSE day + 1

\* the per-user decision with the test-user switch tested inside the working hours
send_now_test_in_hours(user_id, user_data, settings, target, current_hour_prague) ==
    LET freq == settings.notification_frequency
    IN  IF check_if_user_ordered_for_date(user_id, target) THEN FALSE
        ELSE IF is_user_snoozed(user_data, target) THEN FALSE
        ELSE /\ 9 <= current_hour_prague /\ current_hour_prague < 17
             /\ \/ settings.is_test_user
                \/ freq = "2" /\ (current_hour_prague - 9) % 2 = 0
                \/ freq = "4" /\ (current_hour_prague - 9) % 4 = 0
                \/ freq = "daily" /\ 11 <= current_hour_prague /\ current_hour_prague < 13

\* the per-user decision with a working window that includes 17 o'clock
send_now_until_17(user_id, user_data, settings, target, current_hour_prague) ==
    LET freq == settings.notification_frequency
    IN  IF check_if_user_ordered_for_date(user_id, target) THEN FALSE
        ELSE IF is_user_snoozed(user_data, target) THEN FALSE
        ELSE IF settings.is_test_user THEN TRUE
        ELSE /\ 9 <= current_hour_prague /\ current_hour_prague <= 17
             /\ \/ freq = "2" /\ (current_hour_prague - 9) % 2 = 0
                \/ freq = "4" /\ (current_hour_prague - 9) % 4 = 0
                \/ freq = "daily" /\ 11 <= current_hour_prague /\ current_hour_prague < 13

\* the per-user decision of the reminder loop: is a reminder sent to user_id now
send_now(user_id, user_data, settings, target, current_hour_prague) ==
    LET already_ordered == check_if_user_ordered_for_date(user_id, target)
        is_snoozed == is_user_snoozed(user_data, target)
        freq == settings.notification_frequency
    IN  IF already_ordered THEN FALSE
        ELSE IF is_snoozed THEN FALSE
        ELSE IF settings.is_test_user THEN TRUE
        ELSE /\ 9 <= current_hour_prague /\ current_hour_prague < 17
             /\ \/ freq = "2" /\ (current_hour_prague - 9) % 2 = 0
                \/ freq = "4" /\ (current_hour_prague - 9) % 4 = 0
                \/ freq = "daily" /\ 11 <= current_hour_prague /\ current_hour_prague < 13

\* what chat.postMessage may do: accept the message, answer ok = false (an
\* invalid channel, say), or fail in transport or with an HTTP error status
SlackOutcomes == {"ok", "api_error", "exception"}

\* send_slack_message without its try / except
send_slack_message_raising(outcome) == IF outcome = "exception" THEN "raised" ELSE "returned"

\* send_slack_message: every exception is caught and logged, ok = false is logged
send_slack_message(outcome) == "returned"

\* What a handler did.  target: the next order date it computed, << >> when it
\* computed none; fetched: it requested the vendor page; menu: the dish list it
\* used; sent: the channels of its chat.postMessage calls, in order; prior: the
\* dishes the ledger held, before the handler ran, for the triple it wrote;
\* snooze_before: the snoozed_until the acting user had before the handler ran;
\* delivery: what Slack did with each of the job's chat.postMessage calls;
\* page: the vendor page it was served, when it fetched; balance: the budget,
\* the count and the total of the financial overview it sent; remark: the remark
\* it attached to a dish; jobs: the local variables of the invocations of the
\* reminder job in progress, when they are followed statement by statement;
\* writes: the menus these invocations saved, in the order of the saves;
\* prior_rating: the rating the ledger held, before the handler ran, on the
\* order of the triple it wrote.
Response(op, user, utc_hour, hour, target, fetched, menu, sent, status, body) ==
    [op |-> op, user |-> user, utc_hour |-> utc_hour, hour |-> hour, target |-> target,
     fetched |-> fetched, menu |-> menu, sent |-> sent, status |-> status, body |-> body,
     prior |-> {}, snooze_before |-> None, delivery |-> << >>, page |-> None, balance |-> None,
     remark |-> None, jobs |-> None, writes |-> << >>, prior_rating |-> None]

NoRequest == Response("none", None, None, None, None, FALSE, None, << >>, None, None)

trigger_daily_reminder(utc_hour, page) ==
    LET current_hour_prague == (utc_hour + PRAGUE_OFFSET) % 24
        Job(target, fetched, menu, sent, status, body) ==
            Response("reminder", None, utc_hour, current_hour_prague, target, fetched, menu, sent, status, body)
    IN
    /\ UNCHANGED <<today, users, user_settings, orders>>
    /\ IF weekday(today) \notin reminder_days
       THEN /\ last' = Job(None, FALSE, None, << >>, 200, <<"not_a_reminder_day">>)
            /\ UNCHANGED daily_menus
       ELSE
       LET target == next_day(today)
       IN  IF in_cz_holidays(target)
           THEN /\ last' = Job(<<target>>, FALSE, None, << >>, 200, <<"public_holiday">>)
                /\ UNCHANGED daily_menus
           ELSE
           LET menu_items == Fetched[target][page]
               Fetch(response) == [response EXCEPT !.page = <<page>>]
           IN  IF menu_items.raised
               THEN /\ last' = Fetch(Job(<<target>>, TRUE, None, << >>, 500, <<"internal_server_error">>))
                    /\ UNCHANGED daily_menus
               ELSE IF menu_items.isstr
               THEN /\ last' = Fetch(Job(<<target>>, TRUE, None, << >>, 500, menu_items.text))
                    /\ UNCHANGED daily_menus
               ELSE
               LET all_users == get_all_users_with_settings
                   Reminded(u) ==
                       /\ u \in DOMAIN all_users
                       /\ send_now(u, all_users[u].user_data, all_users[u].settings,
                                   target, current_hour_prague)
                   due == SelectSeq(UserOrder, Reminded)
               IN  /\ daily_menus' = save_daily_menu(target, menu_items.items)
                   /\ IF DOMAIN all_users = {}
                      THEN last' = Fetch(Job(<<target>>, TRUE, menu_items.items, << >>, 200, <<"no_users">>))
                      ELSE \E outcome \in [{ u \in UserIds : Reminded(u) } -> SlackOutcomes] :
                           LET raised == { i \in 1 .. Len(due) :
                                             send_slack_message(outcome[due[i]]) = "raised" }
                               sent == IF raised = {} THEN due ELSE SubSeq(due, 1, Min(raised))
                           IN  last' = [Fetch(Job(<<target>>, TRUE, menu_items.items, sent,
                                                  IF raised = {} THEN 200 ELSE 500,
                                                  IF raised = {} THEN <<"reminders_sent">>
                                                                 ELSE <<"internal_server_error">>))
                                        EXCEPT !.delivery = [i \in 1 .. Len(sent) |-> outcome[sent[i]]]]

\* the rating-request job: one message per unrated order of today, to its beneficiary
trigger_rating_requests ==
    LET Job(sent, body) == Response("rating_requests", None, None, None, None, FALSE, None, sent, 200, body)
        orders_to_rate == get_orders_needing_ratings(today)
    IN  /\ last' = IF weekday(today) >= 5 \/ in_cz_holidays(today)
                   THEN Job(<< >>, <<"weekend_or_holiday">>)
                   ELSE IF orders_to_rate = << >>
                   THEN Job(<< >>, <<"no_orders_needing_ratings">>)
                   ELSE Job([i \in 1 .. Len(orders_to_rate) |->
                                orders[orders_to_rate[i]].ordered_for_user_id],
                            <<"rating_requests_sent">>)
        /\ UNCHANGED <<today, users, user_settings, orders, daily_menus>>

-----------------------------------------------------------------------------
(* The Slack interactive callback, one action per branch *)

\* tomorrow as the next order date, the weekend not skipped
order_for_tomorrow(day) == day + 1

\* the next order date taken from the reminder the button belongs to: the date
\* of the menu that was cached last, when there is one
order_for_of_reminder(day) ==
    IF DOMAIN daily_menus = {} THEN (IF weekday(day) = 4 THEN day + 3 ELSE day + 1)
    ELSE LET dates == { parse_ymd(k) : k \in DOMAIN daily_menus }
         IN  CHOOSE d \in dates : \A e \in dates : e <= d

\* the next order date of the interactive callback
order_for(day) == IF weekday(day) = 4 THEN day + 3 ELSE day + 1

Callback(op, user, target, fetched, menu, sent, body) ==
    Response(op, user, None, None, target, fetched, menu, sent, 200, body)

\* the dishes the ledger holds for one (orderer, beneficiary, date)
stored_dishes(ordered_by_id, ordered_for_id, order_for_date) ==
    { orders[k].meal_description : k \in
        { j \in DOMAIN orders : /\ orders[j].ordered_by_user_id = ordered_by_id
                                /\ orders[j].ordered_for_user_id = ordered_for_id
                                /\ parse_ymd(orders[j].order_for_date) = order_for_date } }

\* view_submission of the order modal
order_submission(user_id, selected_meal, selected_user_id) ==
    LET target == order_for(today)
    IN  /\ \/ order_doc_id(user_id, selected_user_id, target) \in DOMAIN orders
           \/ Cardinality(DOMAIN orders) < MaxOrders
        /\ orders' = save_user_order_orders(user_id, selected_meal, target, selected_user_id)
        /\ users' = save_user_order_users(user_id)
        /\ last' = [Callback("order_submission", user_id, <<target>>, FALSE, None,
                             IF user_id # selected_user_id
                             THEN <<user_id, selected_user_id>> ELSE <<user_id>>,
                             selected_meal)
                        EXCEPT !.prior = stored_dishes(user_id, selected_user_id, target),
                               !.prior_rating =
                                    IF order_doc_id(user_id, selected_user_id, target) \in DOMAIN orders
                                    THEN dict_get(orders[order_doc_id(user_id, selected_user_id, target)], "rating")
                                    ELSE None,
                               !.snooze_before = IF user_id \in DOMAIN users
                                                 THEN dict_get(users[user_id], "snoozed_until")
                                                 ELSE None]
        /\ UNCHANGED <<today, user_settings, daily_menus>>

\* block_actions rate_meal_<value>
rate_meal(user_id, rating_value) ==
    LET result == save_rating(user_id, today, rating_value)
    IN  /\ orders' = result.orders
        /\ last' = Callback("rate_meal", user_id, <<order_for(today)>>, FALSE, None, << >>,
                            IF result.saved THEN <<"rating_saved">> ELSE <<"rating_not_saved">>)
        /\ UNCHANGED <<today, users, user_settings, daily_menus>>

\* block_actions check_balance
check_balance(user_id) ==
    LET year == Year
        month == MonthOf(today)
        workdays == calculate_workdays(year, month)
        total_budget == workdays * DAILY_BUDGET
        spending == get_user_monthly_spending(user_id, year, month)
    IN  /\ last' = [Callback("check_balance", user_id, <<order_for(today)>>, FALSE, None, << >>,
                             <<"ephemeral">>)
                        EXCEPT !.balance = <<total_budget, spending.count, spending.total_spent>>]
        /\ UNCHANGED <<today, users, user_settings, orders, daily_menus>>

\* block_actions open_order_modal / ho_order_for_other
open_order_modal(user_id, page) ==
    LET target == order_for(today)
        saved == get_saved_menu_for_date(target)
        fetched == (saved = << >>)
        menu == IF fetched THEN Fetched[target][page] ELSE ReturnList(saved)
        Fetch(response) == IF fetched THEN [response EXCEPT !.page = <<page>>] ELSE response
    IN  /\ last' = IF menu.raised
                   THEN Fetch([Callback("open_order_modal", user_id, <<target>>, fetched, None, << >>,
                                        <<"internal_server_error">>) EXCEPT !.status = 500])
                   ELSE IF menu.isstr
                   THEN Fetch(Callback("open_order_modal", user_id, <<target>>, fetched, None, << >>, <<"menu_error">>))
                   ELSE Fetch(Callback("open_order_modal", user_id, <<target>>, fetched, menu.items, << >>, <<"views.open">>))
        /\ UNCHANGED <<today, users, user_settings, orders, daily_menus>>

\* block_actions snooze_today / ho_skip_ordering
snooze_today(user_id) ==
    LET target == order_for(today)
    IN  /\ users' = doc_set_merge(users, user_id, [snoozed_until |-> Ymd[target]])
        /\ last' = Callback("snooze_today", user_id, <<target>>, FALSE, None, << >>, <<"ephemeral">>)
        /\ UNCHANGED <<today, user_settings, orders, daily_menus>>

\* block_actions unsubscribe
unsubscribe(user_id) ==
    LET target == order_for(today)
    IN  /\ users' = doc_delete(users, user_id)
        /\ last' = Callback("unsubscribe", user_id, <<target>>, FALSE, None, <<user_id>>, <<"unsubscribed">>)
        /\ UNCHANGED <<today, user_settings, orders, daily_menus>>

-----------------------------------------------------------------------------
(* Subscribing and the settings page *)

\* the OAuth callback with a code Slack accepts
oauth_callback(user_id) ==
    /\ users' = doc_set_merge(users, user_id, [subscribed_at |-> <<"SERVER_TIMESTAMP">>])
    /\ last' = Response("oauth_callback", user_id, None, None, None, FALSE, None, << >>, 302, None)
    /\ UNCHANGED <<today, user_settings, orders, daily_menus>>

\* the settings page for a signed-in account; slack_id is what users.lookupByEmail
\* gave (<< >> when the lookup failed); posted is << >> for a GET, <<form>> for a POST
settings_page(user_email, slack_id, posted) ==
    LET is_subscribed == IF slack_id # None THEN slack_id[1] \in DOMAIN users ELSE FALSE
    IN  /\ users' = IF is_subscribed
                    THEN doc_set_merge(users, slack_id[1], [google_email |-> user_email])
                    ELSE users
        /\ user_settings' = IF posted # << >>
                            THEN save_user_settings(user_email, posted[1])
                            ELSE user_settings
        /\ last' = Response("settings_page", None, None, None, None, FALSE, None, << >>,
                            IF posted # << >> THEN 302 ELSE 200, None)
        /\ UNCHANGED <<today, orders, daily_menus>>

-----------------------------------------------------------------------------
(* The clock *)

Midnight ==
    /\ today < LastDay
    /\ today' = today + 1
    /\ last' = NoRequest
    /\ UNCHANGED <<users, user_settings, orders, daily_menus, handled>>

-----------------------------------------------------------------------------

\* the server handles one more request
Serve(Handler) ==
    /\ handled < MaxRequests
    /\ handled' = handled + 1
    /\ Handler

Init ==
    /\ today = FirstDay
    /\ handled = 0
    /\ users = EmptyCollection
    /\ user_settings = EmptyCollection
    /\ orders = EmptyCollection
    /\ daily_menus = EmptyCollection
    /\ last = NoRequest

Next ==
    \/ \E utc_hour \in UtcHours, page \in PagesOn[today] :
            Serve(trigger_daily_reminder(utc_hour, page))
    \/ Serve(trigger_rating_requests)
    \/ \E user_id \in UserIds, meal \in DishNames, selected \in UserIds :
            Serve(order_submission(user_id, meal, selected))
    \/ \E user_id \in UserIds, page \in PagesOn[today] : Serve(open_order_modal(user_id, page))
    \/ \E user_id \in UserIds, rating_value \in RatingValues : Serve(rate_meal(user_id, rating_value))
    \/ \E user_id \in UserIds : Serve(check_balance(user_id))
    \/ \E user_id \in UserIds : Serve(snooze_today(user_id))
    \/ \E user_id \in UserIds : Serve(unsubscribe(user_id))
    \/ \E user_id \in UserIds : Serve(oauth_callback(user_id))
    \/ \E user_email \in Emails : \E slack_id \in {<<SlackIdOfEmail(user_email)>>},
          posted \in {<< >>} \cup { <<[notification_frequency |-> f, is_test_user |-> t]>> :
                                      f \in FormFrequencies, t \in BOOLEAN } :
            Serve(settings_page(user_email, slack_id, posted))
    \/ Midnight

Spec == Init /\ [][Next]_vars

-----------------------------------------------------------------------------
(* The menu cache alone: save_daily_menu applied to arbitrary dates and dish
   lists, among them the empty list, a repeated dish and both orders of two
   dishes. *)

MenuItem(dish_name) == [name |-> dish_name, image_url |-> None]

CacheMenus ==
    { << >>,
      << MenuItem(<<"Svickova">>) >>,
      << MenuItem(<<"Svickova">>), MenuItem(<<"Rizek">>) >>,
      << MenuItem(<<"Rizek">>), MenuItem(<<"Svickova">>) >>,
      << MenuItem(<<"Rizek">>), MenuItem(<<"Rizek">>) >> }

CachePut(menu_date, menu_items) ==
    /\ handled < MaxPuts
    /\ handled' = handled + 1
    /\ daily_menus' = save_daily_menu(menu_date, menu_items)
    /\ last' = Response("put", None, None, None, <<menu_date>>, FALSE, menu_items, << >>, None, None)
    /\ UNCHANGED <<today, users, user_settings, orders>>

CacheNext == \E menu_date \in ModelDates, menu_items \in CacheMenus : CachePut(menu_date, menu_items)

CacheSpec == Init /\ [][CacheNext]_vars

-----------------------------------------------------------------------------
(* The menu fetcher alone: get_daily_menu applied to pages that have the date's
   heading and a menu table of arbitrary rows. *)

\* rows as the vendor may write them: prices with a currency suffix, with a
\* leading zero, with decimals, with a thousands separator, with a prefix and
\* without any digit, and a header row, which has no td cells
TableRowKinds ==
    { Row(<<"Gulas">>, Price120),
      Row(<<"Svickova">>, Price125),
      Row(<<"Rizek">>, <<"0", "1", "2", "5">>),
      Row(<<"Candat">>, <<"1", "2", "5", ",", "5", "0", " ", "K", "c">>),
      Row(<<"Kachna">>, <<"1", " ", "1", "2", "5", " ", "K", "c">>),
      Row(<<"Polevka">>, <<"o", "d", " ", "1", "2", "5", ",", "-">>),
      Row(<<"Knedlik">>, <<"z", "d", "a", "r", "m", "a">>),
      << >> }

Tables == UNION { [1 .. n -> TableRowKinds] : n \in 0 .. MaxRows }

FetchDate == FirstDay + 1

PageOfTable(rows) ==
    [ok |-> TRUE, body |-> << H2(HeadingText(FetchDate)), Table(<<"table-menu">>, rows) >>]

FetchInit ==
    /\ today = FirstDay
    /\ handled = 0
    /\ users = EmptyCollection
    /\ user_settings = EmptyCollection
    /\ orders = EmptyCollection
    /\ daily_menus = EmptyCollection
    /\ \E rows \in Tables :
            last = [NoRequest EXCEPT !.op = "page", !.page = <<PageOfTable(rows)>>,
                                     !.target = <<FetchDate>>]

FetchMenu ==
    /\ handled = 0
    /\ handled' = 1
    /\ LET result == get_daily_menu(last.page[1], last.target[1])
       IN  last' = [last EXCEPT !.op = "fetch", !.fetched = TRUE,
                                !.menu = result.items,
                                !.body = IF result.isstr THEN result.text ELSE <<"list">>]
    /\ UNCHANGED <<today, users, user_settings, orders, daily_menus>>

FetchNext == FetchMenu

FetchSpec == FetchInit /\ [][FetchNext]_vars

-----------------------------------------------------------------------------
(* The monthly spend alone: check_balance applied to ledgers whose orders fall
   on the first and the last day of a month, on the days around them and in
   other years, with the price the code writes, another price, or none. *)

SpendDates ==
    { format_ymd(2024, 1, 31), format_ymd(2024, 2, 1), format_ymd(2024, 2, 29),
      format_ymd(2024, 3, 1), format_ymd(2024, 6, 30), format_ymd(2024, 7, 1),
      format_ymd(2024, 7, 31), format_ymd(2024, 8, 1), format_ymd(2023, 7, 15),
      format_ymd(2025, 2, 10) }

\* << >>: the document has no 'price'; 110: the price of an older document
SpendPrices == {<< >>, <<ORDER_PRICE>>, <<110>>}

SpendDays == {MakeDate(2, 10), MakeDate(7, 4)}

SpendOrder(triple, price) ==
    LET base == [ordered_by_user_id |-> triple[1],
                 meal_description |-> <<"Svickova">>,
                 ordered_for_user_id |-> triple[2],
                 order_for_date |-> triple[3],
                 placed_on_date |-> triple[3],
                 rating |-> None,
                 rated_at |-> None]
    IN  IF price = << >> THEN base ELSE [price |-> price[1]] @@ base

SpendTriples == UserIds \X UserIds \X SpendDates

\* the sets of at most MaxLedger (orderer, beneficiary, date) triples
SpendTripleSets ==
    { T \in { {a, b} : a \in SpendTriples, b \in SpendTriples } \cup {{}} : Cardinality(T) <= MaxLedger }

\* the ledger with one order per triple of T, its price given by price
SpendLedger(T, price) ==
    [k \in { <<t[1], "_", t[2], "_">> \o t[3] : t \in T } |->
        LET t == CHOOSE x \in T : <<x[1], "_", x[2], "_">> \o x[3] = k
        IN  SpendOrder(t, price[t])]

SpendInit ==
    /\ today \in SpendDays
    /\ handled = 0
    /\ users = EmptyCollection
    /\ user_settings = EmptyCollection
    /\ \E T \in SpendTripleSets : \E price \in [T -> SpendPrices] : orders = SpendLedger(T, price)
    /\ daily_menus = EmptyCollection
    /\ last = NoRequest

SpendCheck(user_id) ==
    /\ handled = 0
    /\ handled' = 1
    /\ check_balance(user_id)

SpendNext == \E user_id \in UserIds : SpendCheck(user_id)

SpendSpec == SpendInit /\ [][SpendNext]_vars

-----------------------------------------------------------------------------
(* The dish remark alone: the per-dish step of build_reminder_message_blocks
   applied to ledgers of past orders, rated or not, placed by the user or by a
   colleague, with the dish written in different ways. *)

Rizek == <<"R", "i", "z", "e", "k">>
RemarkSpellings == { Rizek, <<" ", "r", "i", "z", "e", "k", " ">>, <<"G", "u", "l", "a", "s">> }
RemarkMenu == { Rizek, <<"G", "u", "l", "a", "s">> }
RemarkRatings == {None} \cup { <<r>> : r \in RatingValues \ {75} }
RemarkTriples ==
    { <<by, "U1", d>> : by \in UserIds, d \in {format_ymd(2024, 7, 1), format_ymd(2024, 7, 2)} }
        \cup { <<"U2", "U2", format_ymd(2024, 7, 1)>> }

RemarkOrder(triple, dish, rating) ==
    [ordered_by_user_id |-> triple[1],
     meal_description |-> dish,
     ordered_for_user_id |-> triple[2],
     order_for_date |-> triple[3],
     placed_on_date |-> triple[3],
     price |-> ORDER_PRICE,
     rating |-> rating,
     rated_at |-> IF rating = None THEN None ELSE <<"SERVER_TIMESTAMP">>]

\* the sets of at most MaxHistory (orderer, beneficiary, date) triples
RemarkTripleSets ==
    { T \in { {a, b, c} : a \in RemarkTriples, b \in RemarkTriples, c \in RemarkTriples } \cup {{}} :
        Cardinality(T) <= MaxHistory }

\* the ledger with one order per triple of T, its dish and rating given by fill
RemarkLedger(T, fill) ==
    [k \in { <<t[1], "_", t[2], "_">> \o t[3] : t \in T } |->
        LET t == CHOOSE x \in T : <<x[1], "_", x[2], "_">> \o x[3] = k
        IN  RemarkOrder(t, fill[t][1], fill[t][2])]

RemarkInit ==
    /\ today = FirstDay
    /\ handled = 0
    /\ users = EmptyCollection
    /\ user_settings = EmptyCollection
    /\ \E T \in RemarkTripleSets : \E fill \in [T -> RemarkSpellings \X RemarkRatings] :
            orders = RemarkLedger(T, fill)
    /\ daily_menus = EmptyCollection
    /\ last = NoRequest

\* what build_reminder_message_blocks does for one dish of the menu
dish_remark(user_id, dish_name) ==
    /\ handled = 0
    /\ handled' = 1
    /\ LET dish_history == get_user_dish_history(user_id, dish_name)
           comment == generate_dish_comment(dish_history)
       IN  last' = [NoRequest EXCEPT !.op = "remark", !.user = user_id,
                                     !.menu = <<dish_name>>, !.remark = <<comment>>]
    /\ UNCHANGED <<today, users, user_settings, orders, daily_menus>>

RemarkNext == \E user_id \in UserIds, dish_name \in RemarkMenu : dish_remark(user_id, dish_name)

RemarkSpec == RemarkInit /\ [][RemarkNext]_vars

-----------------------------------------------------------------------------
(* Two invocations of the reminder job running at once (two scheduler fires,
   each served by its own worker), followed statement by statement: the page
   request, the save of the menu, the read of the subscribers and every turn of
   the per-user loop are steps of their own, and the steps of the two
   invocations interleave in any order.  last.jobs holds the local variables
   of each invocation, last.sent the chat.postMessage calls of both in the
   order they were made. *)

Invocations == {1, 2}

\* a Sunday whose next order date, Monday, is no holiday
RaceDay == MakeDate(7, 7)
RaceHours == {9, 20}
RacePages == {PageDown, PageWith(RaceDay + 1, RaceDay + 3, RowsA), PageWith(RaceDay + 1, RaceDay + 3, RowsB)}
RaceOutcomes == {"ok", "exception"}

IdleJob ==
    [pc |-> "idle", hour |-> None, target |-> None, menu_items |-> None, all_users |-> None,
     todo |-> << >>, sent |-> << >>, status |-> None, overlapped |-> FALSE]

InProgress(job) == job.pc \notin {"idle", "done"}

\* the statements up to and including menu_items = get_daily_menu(next_day)
RaceStart(p, utc_hour, page) ==
    LET job == last.jobs[1][p]
        current_hour_prague == (utc_hour + PRAGUE_OFFSET) % 24
        target == next_day(today)
        menu_items == get_daily_menu(page, target)
        started == [job EXCEPT !.hour = <<current_hour_prague>>,
                               !.overlapped = \E q \in Invocations \ {p} : InProgress(last.jobs[1][q])]
        new == IF weekday(today) \notin reminder_days
               THEN [started EXCEPT !.pc = "done", !.status = <<200>>]
               ELSE IF in_cz_holidays(target)
               THEN [started EXCEPT !.pc = "done", !.status = <<200>>, !.target = <<target>>]
               ELSE IF menu_items.isstr
               THEN [started EXCEPT !.pc = "done", !.status = <<500>>, !.target = <<target>>]
               ELSE [started EXCEPT !.pc = "fetched", !.target = <<target>>,
                                    !.menu_items = <<menu_items.items>>]
    IN  /\ job.pc = "idle"
        /\ last' = [last EXCEPT !.jobs = <<[last.jobs[1] EXCEPT ![p] = new]>>]
        /\ handled' = IF new.pc = "done" THEN handled + 1 ELSE handled
        /\ UNCHANGED <<today, users, user_settings, orders, daily_menus>>

\* save_daily_menu(next_day, menu_items)
RaceSave(p) ==
    LET job == last.jobs[1][p]
    IN  /\ job.pc = "fetched"
        /\ daily_menus' = save_daily_menu(job.target[1], job.menu_items[1])
        /\ last' = [last EXCEPT !.jobs = <<[last.jobs[1] EXCEPT ![p].pc = "saved"]>>,
                                !.writes = Append(last.writes, job.menu_items[1])]
        /\ UNCHANGED <<today, users, user_settings, orders, handled>>

\* all_users = get_all_users_with_settings() and the test for no users
RaceReadUsers(p) ==
    LET job == last.jobs[1][p]
        all_users == get_all_users_with_settings
        new == IF DOMAIN all_users = {}
               THEN [job EXCEPT !.pc = "done", !.status = <<200>>, !.all_users = <<all_users>>]
               ELSE [job EXCEPT !.pc = "loop", !.all_users = <<all_users>>,
                                !.todo = SelectSeq(UserOrder, LAMBDA u : u \in DOMAIN all_users)]
    IN  /\ job.pc = "saved"
        /\ last' = [last EXCEPT !.jobs = <<[last.jobs[1] EXCEPT ![p] = new]>>]
        /\ handled' = IF new.pc = "done" THEN handled + 1 ELSE handled
        /\ UNCHANGED <<today, users, user_settings, orders, daily_menus>>

\* one turn of the per-user loop
RaceTurn(p, outcome) ==
    LET job == last.jobs[1][p]
        user_id == Head(job.todo)
        data == job.all_users[1][user_id]
        due == send_now(user_id, data.user_data, data.settings, job.target[1], job.hour[1])
        raised == due /\ send_slack_message(outcome) = "raised"
        new == [job EXCEPT !.todo = IF raised THEN << >> ELSE Tail(job.todo),
                           !.sent = IF due THEN Append(job.sent, user_id) ELSE job.sent]
    IN  /\ job.pc = "loop"
        /\ job.todo # << >>
        /\ due \/ outcome = "ok"
        /\ last' = [last EXCEPT !.jobs = <<[last.jobs[1] EXCEPT ![p] = new]>>,
                                !.sent = IF due THEN Append(last.sent, user_id) ELSE last.sent,
                                !.delivery = IF due THEN Append(last.delivery, outcome) ELSE last.delivery]
        /\ UNCHANGED <<today, users, user_settings, orders, daily_menus, handled>>

\* the return after the loop
RaceReturn(p) ==
    LET job == last.jobs[1][p]
    IN  /\ job.pc = "loop"
        /\ job.todo = << >>
        /\ last' = [last EXCEPT !.jobs = <<[last.jobs[1] EXCEPT ![p].pc = "done", ![p].status = <<200>>]>>]
        /\ handled' = handled + 1
        /\ UNCHANGED <<today, users, user_settings, orders, daily_menus>>

\* the subscribers and the ledger the two invocations find
RaceUsers == [u \in UserIds |-> [subscribed_at |-> <<"SERVER_TIMESTAMP">>]]
RaceLedgers ==
    { EmptyCollection,
      doc_set(EmptyCollection, <<"U2", "_", "U2", "_">> \o Ymd[RaceDay + 1],
              [ordered_by_user_id |-> "U2", meal_description |-> <<"Rizek">>,
               ordered_for_user_id |-> "U2", order_for_date |-> Ymd[RaceDay + 1],
               placed_on_date |-> Ymd[RaceDay], price |-> ORDER_PRICE,
               rating |-> None, rated_at |-> None]) }

RaceInit ==
    /\ today = RaceDay
    /\ handled = 0
    /\ users \in {EmptyCollection, RaceUsers}
    /\ user_settings = EmptyCollection
    /\ orders \in RaceLedgers
    /\ daily_menus = EmptyCollection
    /\ last = [NoRequest EXCEPT !.op = "race", !.jobs = <<[p \in Invocations |-> IdleJob]>>]

RaceNext ==
    \/ \E p \in Invocations, utc_hour \in RaceHours, page \in RacePages : RaceStart(p, utc_hour, page)
    \/ \E p \in Invocations : RaceSave(p)
    \/ \E p \in Invocations : RaceReadUsers(p)
    \/ \E p \in Invocations, outcome \in RaceOutcomes : RaceTurn(p, outcome)
    \/ \E p \in Invocations : RaceReturn(p)

RaceSpec == RaceInit /\ [][RaceNext]_vars

-----------------------------------------------------------------------------
(* Buttons pressed late: two subscribers, the reminder job and the order and
   snooze buttons, over the days from FirstDay to MaxLater days after the
   Sunday whose reminder is for Monday. *)

PressLastDay == RaceDay + MaxLater

PressMidnight ==
    /\ today < PressLastDay
    /\ today' = today + 1
    /\ last' = NoRequest
    /\ UNCHANGED <<users, user_settings, orders, daily_menus, handled>>

PressInit ==
    /\ today = FirstDay
    /\ handled = 0
    /\ users = RaceUsers
    /\ user_settings = EmptyCollection
    /\ orders = EmptyCollection
    /\ daily_menus = EmptyCollection
    /\ last = NoRequest

PressNext ==
    \/ \E utc_hour \in RaceHours, page \in RacePages : Serve(trigger_daily_reminder(utc_hour, page))
    \/ \E user_id \in UserIds, meal \in DishNames, selected \in UserIds :
            Serve(order_submission(user_id, meal, selected))
    \/ \E user_id \in UserIds : Serve(snooze_today(user_id))
    \/ PressMidnight

PressSpec == PressInit /\ [][PressNext]_vars

-----------------------------------------------------------------------------
(* Order submissions over ledgers as the store may hold them, whoever wrote
   them: orders for the next order date, rated or not.  (The handlers above
   store a rating on the date of the order and an order for a later date, so
   with a clock that only advances they leave no rated order for a date still
   to come.) *)

ResubmitRatings == {None, <<25>>, <<100>>}
ResubmitTriples == { <<by, for, Ymd[order_for(FirstDay)]>> : by \in UserIds, for \in UserIds }

\* the sets of at most MaxOrders triples
ResubmitTripleSets ==
    { T \in { {a, b} : a \in ResubmitTriples, b \in ResubmitTriples } \cup {{}} :
        Cardinality(T) <= MaxOrders }

ResubmitInit ==
    /\ today = FirstDay
    /\ handled = 0
    /\ users = EmptyCollection
    /\ user_settings = EmptyCollection
    /\ \E T \in ResubmitTripleSets : \E fill \in [T -> DishNames \X ResubmitRatings] :
            orders = RemarkLedger(T, fill)
    /\ daily_menus = EmptyCollection
    /\ last = NoRequest

ResubmitNext ==
    \E user_id \in UserIds, meal \in DishNames, selected \in UserIds :
        Serve(order_submission(user_id, meal, selected))

ResubmitSpec == ResubmitInit /\ [][ResubmitNext]_vars

-----------------------------------------------------------------------------
(* Properties.  The reminder job writes neither 'users' nor 'orders', so in a
   state whose last request was the job these collections are the ones the job
   read. *)

JobRan == last.op = "reminder"
LoopReached == JobRan /\ last.body = <<"reminders_sent">>
WasSent(u) == \E i \in 1 .. Len(last.sent) : last.sent[i] = u
LastTarget == last.target[1]
SettingsOf(u) == get_user_settings(dict_get(users[u], "google_email"))

\* the orders of one (orderer, beneficiary, date), dates compared as dates
OrdersOfTriple(by, for, d) ==
    { k \in DOMAIN orders : /\ orders[k].ordered_by_user_id = by
                            /\ orders[k].ordered_for_user_id = for
                            /\ parse_ymd(orders[k].order_for_date) = d }

HasOrderFor(u, d) ==
    \E k \in DOMAIN orders : /\ orders[k].ordered_by_user_id = u
                             /\ parse_ymd(orders[k].order_for_date) = d

BlockingSnooze(u, d) ==
    /\ dict_get(users[u], "snoozed_until") # None
    /\ parse_ymd(users[u].snoozed_until) >= d

\* C1: the ledger holds at most one order per (ordered_by, ordered_for,
\* order_for_date); after a submission the ledger holds exactly one order for the
\* submitted triple and its dish is the submitted one, whatever dish was stored
\* for the triple before.
C1_OneOrderPerTriple ==
    /\ \A by \in UserIds, for \in UserIds, d \in ModelDates :
            Cardinality(OrdersOfTriple(by, for, d)) <= 1
    /\ last.op = "order_submission" =>
            LET beneficiary == last.sent[Len(last.sent)]
                stored == OrdersOfTriple(last.user, beneficiary, LastTarget)
            IN  /\ Cardinality(stored) = 1
                /\ \A k \in stored : orders[k].meal_description = last.body

\* a submission that found another dish stored for its triple
C1_Resubmitted ==
    /\ last.op = "order_submission"
    /\ last.prior # {}
    /\ last.body \notin last.prior
    /\ Cardinality(DOMAIN orders) = 1

\* C2: has_ordered(user, date) holds exactly when some order has the user as
\* ordered_by and that order_for_date, whoever the beneficiary; and a reminder
\* invocation sends nothing to a user who is the orderer of an order for its
\* next order date.
C2_OrdererGetsNoReminder ==
    /\ \A u \in UserIds, d \in ModelDates :
            check_if_user_ordered_for_date(u, d) <=> HasOrderFor(u, d)
    /\ (JobRan /\ last.target # None) =>
            \A u \in UserIds : HasOrderFor(u, LastTarget) => ~WasSent(u)

\* the job reached the loop at an hour at which a default subscriber is due, and
\* a subscriber without snooze who ordered for a colleague only was left out
C2_OrderedForColleague ==
    /\ LoopReached
    /\ last.hour = 11
    /\ \E u \in DOMAIN users :
            /\ ~WasSent(u)
            /\ dict_get(users[u], "snoozed_until") = None
            /\ ~SettingsOf(u).is_test_user
            /\ SettingsOf(u).notification_frequency = "daily"
            /\ OrdersOfTriple(u, u, LastTarget) = {}
            /\ \E v \in UserIds \ {u} : OrdersOfTriple(u, v, LastTarget) # {}

\* C3: with snoozed_until = D stored, a reminder invocation whose next order
\* date is on or before D sends the subscriber nothing; one whose next order date
\* is after D treats the subscriber as it would without the snooze.
C3_SnoozeBlocksThroughD ==
    (JobRan /\ last.target # None) =>
        \A u \in DOMAIN users :
            dict_get(users[u], "snoozed_until") # None =>
                LET D == parse_ymd(users[u].snoozed_until)
                IN  /\ LastTarget <= D => ~WasSent(u)
                    /\ (LastTarget > D /\ LoopReached) =>
                          (WasSent(u) <=> send_now(u, [users[u] EXCEPT !.snoozed_until = None],
                                                   SettingsOf(u), LastTarget, last.hour))

\* one job left out a subscriber snoozed until exactly its next order date and
\* reminded another whose snooze had ended the day before
C3_SnoozeBoundary ==
    /\ LoopReached
    /\ \E u \in DOMAIN users, v \in DOMAIN users :
            /\ dict_get(users[u], "snoozed_until") # None
            /\ parse_ymd(users[u].snoozed_until) = LastTarget
            /\ ~HasOrderFor(u, LastTarget)
            /\ ~WasSent(u)
            /\ dict_get(users[v], "snoozed_until") # None
            /\ parse_ymd(users[v].snoozed_until) < LastTarget
            /\ WasSent(v)

\* C4: once the job reaches the per-user loop, a subscriber whose settings have
\* is_test_user set, who has no order for the next order date and no snooze
\* reaching it, is sent a reminder at any hour and with any frequency.
C4_TestUserAlwaysReminded ==
    LoopReached =>
        \A u \in DOMAIN users :
            (/\ SettingsOf(u).is_test_user
             /\ ~HasOrderFor(u, LastTarget)
             /\ ~BlockingSnooze(u, LastTarget)) => WasSent(u)

\* a test user with a two-hourly frequency reminded outside the working hours
C4_TestUserAtNight ==
    /\ LoopReached
    /\ last.hour \notin 9 .. 16
    /\ \E u \in DOMAIN users :
            /\ SettingsOf(u).is_test_user
            /\ SettingsOf(u).notification_frequency = "2"
            /\ WasSent(u)

\* Days of the week, counted from Sunday 30 June 2024.
DaysSinceSunday(d) == (d - MakeDate(6, 30)) % 7
IsFriday(d) == DaysSinceSunday(d) = 5
IsSaturday(d) == DaysSinceSunday(d) = 6
IsSundayToThursday(d) == DaysSinceSunday(d) \in 0 .. 4

\* a step in which the server handled a request to the reminder job
JobStep == handled' = handled + 1 /\ last'.op = "reminder"

\* the hours at which each stored frequency is due
DueHours(freq) ==
    IF freq = "daily" THEN {11, 12}
    ELSE IF freq = "2" THEN {9, 11, 13, 15}
    ELSE IF freq = "4" THEN {9, 13}
    ELSE {}

\* C5 (amended): for a non-test subscriber with no order and no blocking snooze,
\* a reminder is sent if and only if the local hour h = (UTC hour + 2) mod 24 lies
\* in 9 <= h < 17 and the stored notification_frequency is "daily" with
\* 11 <= h < 13, "2" with (h - 9) mod 2 = 0, or "4" with (h - 9) mod 4 = 0; with
\* any other stored value, "every_2h" included, no reminder is sent.
C5_FrequencyRule ==
    LoopReached =>
        \A u \in DOMAIN users :
            (/\ ~SettingsOf(u).is_test_user
             /\ ~HasOrderFor(u, LastTarget)
             /\ ~BlockingSnooze(u, LastTarget)) =>
                (WasSent(u) <=>
                    ((last.utc_hour + 2) % 24) \in DueHours(SettingsOf(u).notification_frequency))

\* C5 (as stated): the same with the frequency values daily, every_2h, every_4h.
C5_FrequencyRuleAsStated ==
    LoopReached =>
        \A u \in DOMAIN users :
            LET freq == SettingsOf(u).notification_frequency
                h == (last.utc_hour + 2) % 24
            IN  (/\ ~SettingsOf(u).is_test_user
                 /\ ~HasOrderFor(u, LastTarget)
                 /\ ~BlockingSnooze(u, LastTarget)
                 /\ freq \in {"daily", "every_2h", "every_4h"}) =>
                    (WasSent(u) <=>
                        /\ 9 <= h /\ h < 17
                        /\ \/ freq = "daily" /\ 11 <= h /\ h < 13
                           \/ freq = "every_2h" /\ (h - 9) % 2 = 0
                           \/ freq = "every_4h" /\ (h - 9) % 4 = 0)

\* a non-test subscriber with the stored frequency "2" reminded at 15 o'clock
\* local time, 13 o'clock UTC
C5_TwoHourlyAtThree ==
    /\ LoopReached
    /\ last.utc_hour = 13
    /\ \E u \in DOMAIN users :
            /\ ~SettingsOf(u).is_test_user
            /\ SettingsOf(u).notification_frequency = "2"
            /\ WasSent(u)

\* C6: the reminder job and the interactive callback take today + 3 days as the
\* next order date on a Friday and today + 1 day on a Sunday, Monday, Tuesday,
\* Wednesday or Thursday; the order and the snooze the callback records carry
\* that date.
C6_NextOrderDate ==
    (last.op \in {"reminder", "order_submission", "open_order_modal", "snooze_today"}
        /\ last.target # None /\ ~IsSaturday(today)) =>
        LET expected == IF IsFriday(today) THEN today + 3 ELSE today + 1
        IN  /\ LastTarget = expected
            /\ last.op = "order_submission" =>
                    \E k \in DOMAIN orders :
                        /\ orders[k].ordered_by_user_id = last.user
                        /\ orders[k].meal_description = last.body
                        /\ parse_ymd(orders[k].order_for_date) = expected
            /\ last.op = "snooze_today" =>
                    parse_ymd(users[last.user].snoozed_until) = expected

\* a snooze recorded on a Friday, until the Monday after
C6_FridaySnooze ==
    /\ last.op = "snooze_today"
    /\ IsFriday(today)
    /\ parse_ymd(users[last.user].snoozed_until) = today + 3

\* C7: a reminder invocation on a Friday or a Saturday sends no message, does
\* not fetch the vendor page and writes nothing to the store; an invocation that
\* sends a reminder runs on a Sunday, Monday, Tuesday, Wednesday or Thursday.
C7_FridaySaturdayNoOp ==
    [][JobStep =>
        /\ (IsFriday(today) \/ IsSaturday(today)) =>
                /\ last'.sent = << >>
                /\ ~last'.fetched
                /\ UNCHANGED <<users, user_settings, orders, daily_menus>>
        /\ last'.sent # << >> => IsSundayToThursday(today)]_vars

\* the job ran on a Saturday with a test user subscribed, who has neither an
\* order nor a snooze
C7_SaturdayJob ==
    /\ JobRan
    /\ IsSaturday(today)
    /\ last.sent = << >>
    /\ \E u \in DOMAIN users :
            /\ SettingsOf(u).is_test_user
            /\ orders = EmptyCollection
            /\ dict_get(users[u], "snoozed_until") = None

\* C8: a reminder invocation whose next order date is a public holiday sends no
\* reminder to anyone, does not fetch the menu and does not write the menu cache.
C8_HolidayNoReminder ==
    [][(JobStep /\ last'.target # None /\ last'.target[1] \in cz_holidays) =>
        /\ last'.sent = << >>
        /\ ~last'.fetched
        /\ UNCHANGED daily_menus]_vars

\* the job ran on Thursday 4 July for Friday 5 July 2024, a public holiday, with
\* a test user subscribed, who has neither an order nor a snooze
C8_HolidayJob ==
    /\ JobRan
    /\ last.target = <<MakeDate(7, 5)>>
    /\ last.sent = << >>
    /\ \E u \in DOMAIN users :
            /\ SettingsOf(u).is_test_user
            /\ orders = EmptyCollection
            /\ dict_get(users[u], "snoozed_until") = None

IsBusinessDay(d) == DaysSinceSunday(d) \in 1 .. 5

\* C9 (as stated): the target date of a reminder invocation, the order_for_date
\* of every order and the snoozed_until of every subscriber are days from Monday
\* to Friday.
C9_NextOrderDateIsBusinessDay ==
    /\ (JobRan /\ last.target # None) => IsBusinessDay(LastTarget)
    /\ \A k \in DOMAIN orders : IsBusinessDay(parse_ymd(orders[k].order_for_date))
    /\ \A u \in DOMAIN users :
            dict_get(users[u], "snoozed_until") # None =>
                IsBusinessDay(parse_ymd(users[u].snoozed_until))

\* the dish list the cache holds for a date, << >> when it holds none
CachedMenu(d) ==
    LET hits == { k \in DOMAIN daily_menus : parse_ymd(k) = d }
    IN  IF hits = {} THEN << >>
        ELSE dict_get(daily_menus[CHOOSE k \in hits : TRUE], "menu_items")

\* C10 (as stated): a reminder invocation that gets as far as the menu, or an
\* order-modal open, whose next order date has a cached menu uses the cached
\* dish list and does not fetch the vendor page.
C10_CachedMenuReused ==
    [][(/\ handled' = handled + 1
        /\ last'.op \in {"reminder", "open_order_modal"}
        /\ last'.target # None
        /\ last'.body \notin {<<"not_a_reminder_day">>, <<"public_holiday">>}
        /\ CachedMenu(last'.target[1]) # << >>) =>
            /\ ~last'.fetched
            /\ last'.menu = CachedMenu(last'.target[1])]_vars

\* a step in which the server handled a request
RequestStep == handled' = handled + 1

\* the dish list a cache holds for a date, << >> when it holds none
CachedMenuIn(menus, d) ==
    LET hits == { k \in DOMAIN menus : parse_ymd(k) = d }
    IN  IF hits = {} THEN << >>
        ELSE dict_get(menus[CHOOSE k \in hits : TRUE], "menu_items")

\* C11 (as stated): a reminder invocation or an order-modal open that finds no
\* cached menu for its next order date and fetches one successfully leaves that
\* menu in the cache under the date.
C11_ReadThroughStores ==
    [][(/\ RequestStep
        /\ last'.op \in {"reminder", "open_order_modal"}
        /\ last'.target # None
        /\ last'.fetched
        /\ last'.menu # None
        /\ CachedMenu(last'.target[1]) = << >>) =>
            CachedMenuIn(daily_menus', last'.target[1]) = last'.menu]_vars

\* C12: before any write the cache holds no menu for any date; a write of a dish
\* list under a date makes the read of that date return exactly that list, and
\* leaves what the read of every other date returns unchanged.
C12_CacheRoundTrip ==
    /\ \A d \in ModelDates : get_saved_menu_for_date(d) = None
    /\ [][\A d \in ModelDates :
            IF last'.op = "put" /\ last'.target = <<d>>
            THEN get_saved_menu_for_date(d)' = last'.menu
            ELSE get_saved_menu_for_date(d)' = get_saved_menu_for_date(d)]_vars

\* after a write of two dishes under one date the cache returns them in the
\* written order, and still returns the other order for another date
C12_TwoDatesCached ==
    /\ last.op = "put"
    /\ Len(last.menu) = 2
    /\ get_saved_menu_for_date(LastTarget) = last.menu
    /\ \E d \in ModelDates \ {LastTarget} :
            /\ Len(get_saved_menu_for_date(d)) = 2
            /\ get_saved_menu_for_date(d) # last.menu
            /\ get_saved_menu_for_date(d)[1] = last.menu[2]

\* C13: an order submission leaves the orderer with snoozed_until null and
\* leaves the record of every other user, the beneficiary included, as it was.
C13_OrderClearsOrdererSnoozeOnly ==
    [][(RequestStep /\ last'.op = "order_submission") =>
        /\ last'.user \in DOMAIN users'
        /\ "snoozed_until" \in DOMAIN users'[last'.user]
        /\ users'[last'.user].snoozed_until = None
        /\ \A u \in UserIds \ {last'.user} :
                /\ u \in DOMAIN users' <=> u \in DOMAIN users
                /\ u \in DOMAIN users => users'[u] = users[u]]_vars

\* a snoozed user ordered for a snoozed colleague: the orderer's snooze is gone,
\* the colleague's is still there
C13_OrderedForSnoozedColleague ==
    /\ last.op = "order_submission"
    /\ last.snooze_before # None
    /\ users[last.user].snoozed_until = None
    /\ \E v \in DOMAIN users \ {last.user} :
            /\ last.sent = <<last.user, v>>
            /\ dict_get(users[v], "snoozed_until") # None

\* C14 (as stated): a record appears in 'users' only in a step of the OAuth
\* callback and disappears only in a step of unsubscribe.
C14_SubscribersOnlyBySubscribe ==
    [][/\ DOMAIN users' \ DOMAIN users # {} => last'.op = "oauth_callback"
       /\ DOMAIN users \ DOMAIN users' # {} => last'.op = "unsubscribe"]_vars

\* the job got as far as the per-user loop
LoopEntered == JobRan /\ last.menu # None /\ users # EmptyCollection

\* C15: whatever Slack does with each message, an invocation that enters the
\* per-user loop attempts one send, and only one, to every user who is due, and
\* ends normally.
C15_SendFailureDoesNotAbort ==
    LoopEntered =>
        /\ last.body = <<"reminders_sent">>
        /\ \A u \in DOMAIN users :
                send_now(u, users[u], SettingsOf(u), LastTarget, last.hour) <=> WasSent(u)
        /\ \A i, j \in 1 .. Len(last.sent) : last.sent[i] = last.sent[j] => i = j

\* the send to the first user failed in transport, the second user was sent to
C15_SecondSentAfterFailure ==
    /\ LoopEntered
    /\ Len(last.sent) = 2
    /\ last.delivery = <<"exception", "ok">>

\* C16 (as stated): the reminder job answers 200 whatever the outcome; only the
\* failure of the page request itself may give another status.
C16_JobAnswers200 ==
    JobRan => (last.status = 200 \/ last.body = <<"critical_error">>)

\* the page has no heading with the date
NoHeading(page, d) ==
    \A i \in 1 .. Len(page.body) :
        ~(page.body[i].tag = "h2" /\ IsSubstring(strftime_dmy(d), page.body[i].text))

\* the page has no menu table
NoMenuTable(page) ==
    \A i \in 1 .. Len(page.body) :
        ~(page.body[i].tag = "table" /\ page.body[i].class = <<"table-menu">>)

\* C17: a fetch never ends with an exception; when the page request fails, the
\* date's heading is missing or the menu table is missing, the caller gets a
\* failure text and no dish list, and the reminder job then sends no reminder and
\* leaves the menu cache alone.
C17_FetchFailureIsAValue ==
    [][(RequestStep /\ last'.op \in {"reminder", "open_order_modal"} /\ last'.fetched) =>
        LET page == last'.page[1]
            failing == \/ ~page.ok
                       \/ NoHeading(page, last'.target[1])
                       \/ NoMenuTable(page)
        IN  /\ last'.body # <<"internal_server_error">>
            /\ failing =>
                    /\ last'.menu = None
                    /\ last'.op = "reminder" =>
                            /\ last'.body \in {<<"critical_error">>, <<"menu_not_available_yet">>,
                                               <<"table_not_found">>}
                            /\ last'.sent = << >>
                            /\ UNCHANGED daily_menus]_vars

\* the job could not reach the vendor while a test user without order and
\* snooze was subscribed: nothing sent, nothing cached
C17_VendorDown ==
    /\ JobRan
    /\ last.page = <<PageDown>>
    /\ last.body = <<"critical_error">>
    /\ last.sent = << >>
    /\ daily_menus = EmptyCollection
    /\ orders = EmptyCollection
    /\ \E u \in DOMAIN users :
            /\ SettingsOf(u).is_test_user
            /\ dict_get(users[u], "snoozed_until") = None

\* the page has menu tables and none of their rows is at the target price
NoRowAtTargetPrice(page) ==
    \A i \in 1 .. Len(page.body) :
        (page.body[i].tag = "table" /\ page.body[i].class = <<"table-menu">>) =>
            \A r \in 1 .. Len(page.body[i].rows) : ~RowAtTargetPrice(page.body[i].rows[r])

\* C18 (as stated): when the page has the date's heading and table but no row at
\* the target price, the callers go on as after a successful fetch: the reminder
\* job answers 200 and the order-modal open opens the modal.
C18_NoneAtPriceIsSuccess ==
    (/\ last.op \in {"reminder", "open_order_modal"}
     /\ last.fetched
     /\ last.page[1].ok
     /\ ~NoHeading(last.page[1], LastTarget)
     /\ ~NoMenuTable(last.page[1])
     /\ NoRowAtTargetPrice(last.page[1])) =>
        /\ last.op = "reminder" => last.status = 200
        /\ last.op = "open_order_modal" => last.body = <<"views.open">>

\* the value of the digits text[s] .. text[e]
RECURSIVE RunValue(_, _, _)
RunValue(text, s, e) ==
    IF e < s THEN 0 ELSE RunValue(text, s, e - 1) * 10 + DigitValue(text[e])

\* the first contiguous run of digits of the text, read as an integer, is the price
PricedAt(text, price) ==
    \E s \in 1 .. Len(text), e \in 1 .. Len(text) :
        /\ s <= e
        /\ \A i \in 1 .. e : IsDigit(text[i]) <=> i >= s
        /\ e = Len(text) \/ ~IsDigit(text[e + 1])
        /\ RunValue(text, s, e) = price

\* the names of the four-cell rows priced at the target price, in document order
ExpectedDishes(rows) ==
    LET priced(cols) == Len(cols) = 4 /\ PricedAt(cols[4], 125)
        kept == SelectSeq(rows, priced)
    IN  [i \in 1 .. Len(kept) |-> kept[i][3]]

\* C19: for a page with the date's heading and a menu table, the fetcher returns
\* a dish list exactly when some row's price text has the target price as its
\* first run of digits read as an integer, and the list then names those rows, in
\* document order, repeated names kept, rows without digits dropped.
C19_PriceFilter ==
    last.op = "fetch" =>
        LET expected == ExpectedDishes(last.page[1].body[2].rows)
        IN  IF expected = << >>
            THEN last.body = <<"no_dish_at_target_price">>
            ELSE /\ last.body = <<"list">>
                 /\ [i \in 1 .. Len(last.menu) |-> last.menu[i].name] = expected

\* Svickova at 125, Gulas at 120, Svickova at 125 again: both Svickova returned
C19_RepeatedDishKept ==
    /\ last.op = "fetch"
    /\ last.page[1].body[2].rows =
            << Row(<<"Svickova">>, Price125), Row(<<"Gulas">>, Price120), Row(<<"Svickova">>, Price125) >>
    /\ [i \in 1 .. Len(last.menu) |-> last.menu[i].name] = << <<"Svickova">>, <<"Svickova">> >>

\* the fields of an order other than the rating fields
OrderProper(order) == [f \in DOMAIN order \ {"rating", "rated_at"} |-> order[f]]

\* C20: a rating click adds no order and removes none; when the ledger has no
\* order for the clicking user as beneficiary on the day of the click, the click
\* is answered with the failure message and the ledger stays as it was; otherwise
\* every order keeps all its fields but rating and rated_at.
C20_RatingNeverCreatesOrder ==
    [][(RequestStep /\ last'.op = "rate_meal") =>
        /\ DOMAIN orders' = DOMAIN orders
        /\ \A k \in DOMAIN orders : OrderProper(orders'[k]) = OrderProper(orders[k])
        /\ (\A k \in DOMAIN orders : ~(/\ orders[k].ordered_for_user_id = last'.user
                                         /\ parse_ymd(orders[k].order_for_date) = today)) =>
                /\ orders' = orders
                /\ last'.body = <<"rating_not_saved">>]_vars

\* a user who ordered for a colleague for today, and has no order of their own,
\* clicked a rating: not saved, the colleague's order as it was
C20_RatingWithoutOrder ==
    /\ last.op = "rate_meal"
    /\ last.body = <<"rating_not_saved">>
    /\ \E k \in DOMAIN orders :
            /\ orders[k].ordered_by_user_id = last.user
            /\ orders[k].ordered_for_user_id # last.user
            /\ parse_ymd(orders[k].order_for_date) = today
            /\ orders[k].rating = None

\* the year and the month a rendered date names
YearOfString(s) == ToInt(SubSeq(s, 1, 4))
MonthOfString(s) == ToInt(SubSeq(s, 6, 7))

\* the orders the user who asked placed, for anyone, for a day of the current month
OrdersOfTheMonth ==
    { k \in DOMAIN orders : /\ orders[k].ordered_by_user_id = last.user
                            /\ YearOfString(orders[k].order_for_date) = Year
                            /\ MonthOfString(orders[k].order_for_date) = MonthOf(today) }

UnpricedOrders == { k \in OrdersOfTheMonth : "price" \notin DOMAIN orders[k] }

RECURSIVE TotalOf(_)
\* the prices of the orders ids added up, 125 for an order without a price
TotalOf(ids) ==
    IF ids = {} THEN 0
    ELSE LET k == CHOOSE id \in ids : TRUE
         IN  (IF k \in UnpricedOrders THEN 125 ELSE orders[k].price) + TotalOf(ids \ {k})

\* C21: the financial overview counts the orders the user placed, for anyone, for
\* a day of the current calendar month (first and last day included), and its
\* total is the sum of their prices, 125 taken for an order without a price.
C21_MonthlySpend ==
    last.op = "check_balance" =>
        /\ last.balance[2] = Cardinality(OrdersOfTheMonth)
        /\ last.balance[3] = TotalOf(OrdersOfTheMonth)

\* the user placed two orders: one without a price for a colleague for the last
\* day of the month, which is counted, and one for the first day of the next
\* month, which is not
C21_LastDayForColleague ==
    /\ last.op = "check_balance"
    /\ last.balance[2] = 1
    /\ last.balance[3] = 125
    /\ Cardinality({ k \in DOMAIN orders : orders[k].ordered_by_user_id = last.user }) = 2
    /\ \E k \in UnpricedOrders :
            /\ orders[k].ordered_for_user_id # last.user
            /\ orders[k].order_for_date = format_ymd(Year, MonthOf(today), monthrange_days(Year, MonthOf(today)))
    /\ \E k \in DOMAIN orders :
            /\ orders[k].ordered_by_user_id = last.user
            /\ orders[k].order_for_date = format_ymd(Year, MonthOf(today) + 1, 1)

\* the subscriber u is due a reminder for the job's next order date at its hour
Eligible(u) ==
    /\ u \in DOMAIN users
    /\ ~HasOrderFor(u, LastTarget)
    /\ ~BlockingSnooze(u, LastTarget)
    /\ \/ SettingsOf(u).is_test_user
       \/ last.hour \in DueHours(SettingsOf(u).notification_frequency)

\* the number of chat.postMessage calls of the last request to the channel u
SendsTo(u) == Cardinality({ i \in 1 .. Len(last.sent) : last.sent[i] = u })

\* C22: an invocation of the reminder job that enters the per-user loop attempts
\* exactly one send to each subscriber who is eligible and none to anyone else.
C22_OneSendPerEligibleUser ==
    LoopEntered => \A u \in UserIds : SendsTo(u) = (IF Eligible(u) THEN 1 ELSE 0)

\* two subscribers, one eligible and sent to once, the other not eligible
C22_OneOfTwoSent ==
    /\ LoopEntered
    /\ DOMAIN users = UserIds
    /\ \E u, v \in UserIds : /\ Eligible(u) /\ SendsTo(u) = 1
                             /\ ~Eligible(v) /\ SendsTo(v) = 0

\* the orders the ledger holds for the user of the last request as beneficiary,
\* of the dish of the last request
HistoryOfDish ==
    { k \in DOMAIN orders :
        /\ orders[k].ordered_for_user_id = last.user
        /\ str_lower(str_strip(orders[k].meal_description)) = str_lower(str_strip(last.menu[1])) }

RatedOfDish == { k \in HistoryOfDish : orders[k].rating # None }

\* the rated orders of the dish for the latest date that has one
LatestRated ==
    { k \in RatedOfDish :
        \A j \in RatedOfDish : StrLe(orders[j].order_for_date, orders[k].order_for_date) }

Bucket(rating) == IF rating >= 80 THEN "high" ELSE IF rating >= 50 THEN "medium" ELSE "low"

\* C23 (as stated): the remark of a dish is the repeat-count remark when the
\* beneficiary has 3 or more orders of it; otherwise, when some order of it is
\* rated, the remark of the bucket of the last rating, the one given last time;
\* otherwise the repeat-count remark for 2 orders; otherwise there is none.
C23_RemarkCategory ==
    last.op = "remark" =>
        LET n == Cardinality(HistoryOfDish)
        IN  IF n >= 3 THEN last.remark[1] = Remark("multiple", n)
            ELSE IF RatedOfDish # {}
            THEN \E k \in LatestRated :
                    last.remark[1] = Remark(Bucket(orders[k].rating[1]), orders[k].rating[1])
            ELSE IF n >= 2 THEN last.remark[1] = Remark("multiple", n)
            ELSE last.remark[1] = NoRemark

InvocationState(p) == last.jobs[1][p]

\* C24: while two invocations of the reminder job for the same next order date
\* run at once, the menu cache never holds a document for another date, its
\* document for that date is the menu that was saved last, and an invocation
\* that has gone through its loop has sent one reminder to every subscriber who
\* is due, whatever the other invocation has sent.
C24_RaceLastWriteWins ==
    last.op = "race" =>
        /\ DOMAIN daily_menus \subseteq {Ymd[next_day(today)]}
        /\ last.writes # << >> =>
                get_saved_menu_for_date(next_day(today)) = last.writes[Len(last.writes)]
        /\ last.writes = << >> => daily_menus = EmptyCollection
        /\ \A p \in Invocations :
                (InvocationState(p).pc = "done" /\ InvocationState(p).all_users # None) =>
                    \A u \in UserIds :
                        Cardinality({ i \in 1 .. Len(InvocationState(p).sent) : InvocationState(p).sent[i] = u })
                            = IF /\ u \in DOMAIN users
                                 /\ ~HasOrderFor(u, next_day(today))
                                 /\ InvocationState(p).hour[1] \in DueHours("daily")
                              THEN 1 ELSE 0

\* both invocations are through, the second started while the first was in
\* progress, they saved different menus, and one user got a reminder from each
C24_DuplicateSend ==
    /\ last.op = "race"
    /\ \A p \in Invocations : InvocationState(p).pc = "done"
    /\ \E p \in Invocations : InvocationState(p).overlapped
    /\ Len(last.writes) = 2
    /\ last.writes[1] # last.writes[2]
    /\ \E u \in UserIds : \A p \in Invocations : \E i \in 1 .. Len(InvocationState(p).sent) : InvocationState(p).sent[i] = u

DayAfterOrMonday(day) == IF weekday(day) = 4 THEN day + 3 ELSE day + 1

\* the dates for which a reminder job of an earlier day saved its menu
EarlierReminderDates == { d \in { parse_ymd(k) : k \in DOMAIN daily_menus } : d <= today }

\* C26: an order submission handled on day T stores an order for T + 1, or T + 3
\* when T is a Friday, and a snooze handled on day T stores that date as
\* snoozed_until; so a button of a reminder that was sent on an earlier day for
\* the date D stores a date other than D.
C26_PressDateFromHandlingDay ==
    [][(RequestStep /\ last'.op \in {"order_submission", "snooze_today"}) =>
        /\ last'.op = "order_submission" =>
                /\ \E k \in DOMAIN orders' :
                        /\ orders'[k].ordered_by_user_id = last'.user
                        /\ orders'[k].meal_description = last'.body
                        /\ orders'[k].order_for_date = strftime_ymd(DayAfterOrMonday(today))
                /\ \A k \in DOMAIN orders' :
                        (k \notin DOMAIN orders \/ orders'[k] # orders[k]) =>
                            orders'[k].order_for_date = strftime_ymd(DayAfterOrMonday(today))
        /\ last'.op = "snooze_today" =>
                users'[last'.user].snoozed_until = strftime_ymd(DayAfterOrMonday(today))
        /\ \A d \in EarlierReminderDates :
                /\ \A k \in DOMAIN orders' :
                        (k \notin DOMAIN orders \/ orders'[k] # orders[k]) =>
                            orders'[k].order_for_date # strftime_ymd(d)
                /\ last'.op = "snooze_today" =>
                        users'[last'.user].snoozed_until # strftime_ymd(d)]_vars

\* Sunday's job sent a reminder for Monday; on Monday its order button was
\* used, and the ledger has an order for Tuesday and none for Monday
C26_OrderedADayLate ==
    /\ last.op = "order_submission"
    /\ EarlierReminderDates = {today}
    /\ weekday(today) = 0
    /\ \E k \in DOMAIN orders : orders[k].order_for_date = strftime_ymd(today + 1)
    /\ \A k \in DOMAIN orders : orders[k].order_for_date # strftime_ymd(today)

\* the orders for the user u as beneficiary for the day d
OrdersForBeneficiary(u, d) ==
    { k \in DOMAIN orders : /\ orders[k].ordered_for_user_id = u
                            /\ parse_ymd(orders[k].order_for_date) = d }

\* C27: a rating click of user U on day T, when the ledger has an order for U
\* as beneficiary for T, sets the rating of one such order to one of the button
\* values and leaves every other order, those of other orderers for U on T
\* included, as it was; no order is added or removed.
C27_RatingClickRatesOneOrder ==
    [][(RequestStep /\ last'.op = "rate_meal" /\ OrdersForBeneficiary(last'.user, today) # {}) =>
        /\ DOMAIN orders' = DOMAIN orders
        /\ \E k \in OrdersForBeneficiary(last'.user, today) :
                /\ \E v \in RatingValues : orders'[k].rating = <<v>>
                /\ OrderProper(orders'[k]) = OrderProper(orders[k])
                /\ \A j \in DOMAIN orders \ {k} : orders'[j] = orders[j]]_vars

\* two orderers placed an order for the same user for today; after that user's
\* rating click one of the two orders is rated and the other is not
C27_OneOfTwoRated ==
    /\ last.op = "rate_meal"
    /\ last.body = <<"rating_saved">>
    /\ Cardinality(OrdersForBeneficiary(last.user, today)) = 2
    /\ \E j, k \in OrdersForBeneficiary(last.user, today) :
            /\ orders[j].rating # None
            /\ orders[k].rating = None

\* the beneficiary of the order submission handled last
LastBeneficiary == last.sent[Len(last.sent)]

\* the ids get_orders_needing_ratings lists for the date d
NeedingRatings(d) ==
    { get_orders_needing_ratings(d)[i] : i \in 1 .. Len(get_orders_needing_ratings(d)) }

\* C28: after an order submission the ledger holds for the submitted triple one
\* order, which is exactly the submitted record: its rating and rated_at are
\* null whatever the order of that triple held before, and it is among the
\* orders reported as needing a rating for its date.
C28_ResubmissionResetsRating ==
    last.op = "order_submission" =>
        /\ Cardinality(OrdersOfTriple(last.user, LastBeneficiary, LastTarget)) = 1
        /\ \A k \in OrdersOfTriple(last.user, LastBeneficiary, LastTarget) :
                /\ DOMAIN orders[k] = {"ordered_by_user_id", "meal_description", "ordered_for_user_id",
                                       "order_for_date", "placed_on_date", "price", "rating", "rated_at"}
                /\ orders[k].meal_description = last.body
                /\ orders[k].placed_on_date = strftime_ymd(today)
                /\ orders[k].price = 125
                /\ orders[k].rating = None
                /\ orders[k].rated_at = None
                /\ k \in NeedingRatings(LastTarget)

\* the order of the submitted triple was rated before the submission
C28_RatedOrderResubmitted ==
    /\ last.op = "order_submission"
    /\ last.prior_rating # None
    /\ last.prior # {}
    /\ \E k \in OrdersOfTriple(last.user, LastBeneficiary, LastTarget) :
            orders[k].rating = None /\ k \in NeedingRatings(LastTarget)

====
